---- MODULE Spec2Model ----
(***************************************************************************)
(* A model of the wrs immediate-mode 2D renderer (src/src/main.rs): the    *)
(* quad batch and the glyph batch (CPU vertex/index lists, GPU vertex and  *)
(* index buffers, has_data flag), the grow-or-write upload, flush into a   *)
(* render pass, the frame controller (begin_frame, end_frame, render), the *)
(* camera, the glyph atlas and the application's window-event handler.     *)
(*                                                                         *)
(* Conventions.                                                            *)
(*  - f32 coordinates are modelled by small integers, on which f32         *)
(*    addition is exact; a colour [f32; 3] is a triple.                    *)
(*  - A GPU buffer is a record [id, size, data, copy_dst]: id is the       *)
(*    generation of the buffer object held in that field (a new object     *)
(*    gets the next id), size its capacity in bytes, data the elements it  *)
(*    holds (stale tail included), copy_dst whether it was created with    *)
(*    BufferUsages::COPY_DST.                                              *)
(*  - wgpu rejects a write_buffer that overruns the destination or targets *)
(*    a buffer without COPY_DST; the default uncaptured-error handler      *)
(*    panics.  Option::unwrap() on None panics.  A panic ends the process: *)
(*    aborted records the cause and no action is enabled afterwards.       *)
(*  - Acquiring the surface image, submitting and presenting are external  *)
(*    collaborators and are recorded as commands only.                     *)
(*  - flush takes the render pass render() opened, so it acts inside the   *)
(*    Render action; pass holds the commands of the pass of the operation  *)
(*    just performed (it is a local of render()).                          *)
(*  - The camera's matrices are computed as the code computes them, in     *)
(*    exact fractions with IEEE 754's infinities and NaN for the divisions *)
(*    by zero of a zero-area viewport.                                     *)
(*  - wgpu's Surface::configure rejects a configuration whose width or     *)
(*    height is zero, and that error is fatal.                             *)
(*  - Three further specifications share the state: SpecFull (the batches  *)
(*    around the end of the 16-bit index space), SpecApp (the application: *)
(*    one action per window event, each the whole of App::window_event)    *)
(*    and SpecAtlas (create_monospace_atlas applied to any font).          *)
(***************************************************************************)
EXTENDS Integers, Sequences, FiniteSets, TLC

VARIABLES quad_renderer, font_renderer, pass, last, aborted,
          size, camera, surface, font, app, ops

vars == <<quad_renderer, font_renderer, pass, last, aborted,
          size, camera, surface, font, app, ops>>

\* the state outside the two batches: the Renderer's size, camera and surface
\* configuration, the font its atlas is built from, the App
windowing == <<size, camera, surface, font, app, ops>>

(***************************************************************************)
(* Bounds of the exploration.                                              *)
(***************************************************************************)
\* quads pushed into the quad batch between two clears
MaxQuads == 2
\* glyphs pushed into the glyph batch between two clears
MaxGlyphs == 4
\* pushes explored beyond the last one that fits the 16-bit index space
OverflowQuads == 1
\* width and height of the atlas cell (the pixel bounds of 'M' at the scale)
CellW == 2
CellH == 3

(***************************************************************************)
(* Program constants.                                                      *)
(***************************************************************************)
\* std::mem::size_of::<Vertex>(): pos [f32; 3] + color [f32; 3]
VertexSize == 24
\* std::mem::size_of::<FontVertex>(): pos + color + texture_coords [f32; 2]
FontVertexSize == 32
\* std::mem::size_of::<u16>()
IndexSize == 2
\* the number of values of u16, the index type
U16Modulus == 65536
\* the atlas grid: 16 columns
cols == 16
\* first and last character of the atlas, 0x20 and 0x7E
FirstChar == 32
LastChar == 126

\* usize as u16: truncation to the low 16 bits
AsU16(n) == n % U16Modulus

\* u16 + u16 (start is a multiple of 4 below 65536, so start + 3 never
\* overflows and the debug-build overflow check cannot fire)
AddU16(a, b) == (a + b) % U16Modulus

(***************************************************************************)
(* The glyph atlas (create_monospace_atlas).  A UV coordinate x / width is *)
(* the fraction <<x, width>>.                                              *)
(***************************************************************************)
chars == [i \in 1..(LastChar - FirstChar + 1) |-> FirstChar + i - 1]

\* ceil(chars.len() / cols)
rows == (Len(chars) + cols - 1) \div cols

\* the characters the embedded font has an outline for: every printable
\* ASCII character but the space
FontOutlined == (FirstChar + 1)..LastChar

\* variant of create_monospace_atlas: the cell's row is i modulo rows
create_monospace_atlas_RowByModulo(outlined, cell_w, cell_h) ==
  LET atlas_width == cols * cell_w
      atlas_height == rows * cell_h
      uv(i) == LET x == (i % cols) * cell_w
                   y == (i % rows) * cell_h
               IN  << <<x, atlas_width>>, <<y, atlas_height>>,
                      <<x + cell_w, atlas_width>>, <<y + cell_h, atlas_height>> >>
  IN  [ glyph_map |-> [ch \in {chars[i] : i \in 1..Len(chars)} \cap outlined
                          |-> uv(ch - FirstChar)],
        cell_size |-> <<cell_w, cell_h>>,
        width     |-> atlas_width,
        height    |-> atlas_height ]

\* variant of create_monospace_atlas: the cells are filled column by column
create_monospace_atlas_ColumnMajor(outlined, cell_w, cell_h) ==
  LET atlas_width == cols * cell_w
      atlas_height == rows * cell_h
      uv(i) == LET x == (i \div rows) * cell_w
                   y == (i % rows) * cell_h
               IN  << <<x, atlas_width>>, <<y, atlas_height>>,
                      <<x + cell_w, atlas_width>>, <<y + cell_h, atlas_height>> >>
  IN  [ glyph_map |-> [ch \in {chars[i] : i \in 1..Len(chars)} \cap outlined
                          |-> uv(ch - FirstChar)],
        cell_size |-> <<cell_w, cell_h>>,
        width     |-> atlas_width,
        height    |-> atlas_height ]

\* variant of create_monospace_atlas: every character gets an entry, with
\* or without an outline
create_monospace_atlas_EveryChar(outlined, cell_w, cell_h) ==
  LET atlas_width == cols * cell_w
      atlas_height == rows * cell_h
      uv(i) == LET x == (i % cols) * cell_w
                   y == (i \div cols) * cell_h
               IN  << <<x, atlas_width>>, <<y, atlas_height>>,
                      <<x + cell_w, atlas_width>>, <<y + cell_h, atlas_height>> >>
  IN  [ glyph_map |-> [ch \in {chars[i] : i \in 1..Len(chars)} |-> uv(ch - FirstChar)],
        cell_size |-> <<cell_w, cell_h>>,
        width     |-> atlas_width,
        height    |-> atlas_height ]

create_monospace_atlas(outlined, cell_w, cell_h) ==
  LET atlas_width == cols * cell_w
      atlas_height == rows * cell_h
      uv(i) == LET x == (i % cols) * cell_w
                   y == (i \div cols) * cell_h
               IN  << <<x, atlas_width>>, <<y, atlas_height>>,
                      <<x + cell_w, atlas_width>>, <<y + cell_h, atlas_height>> >>
  IN  [ glyph_map |-> [ch \in {chars[i] : i \in 1..Len(chars)} \cap outlined
                          |-> uv(ch - FirstChar)],
        cell_size |-> <<cell_w, cell_h>>,
        width     |-> atlas_width,
        height    |-> atlas_height ]

\* Renderer::new: the atlas of the embedded font
font_atlas == create_monospace_atlas(FontOutlined, CellW, CellH)

(***************************************************************************)
(* Inputs of push.                                                         *)
(***************************************************************************)
Green == <<0, 1, 0>>
White == <<1, 1, 1>>

\* (x, y, w, h, color)
QuadInputs == { <<0, 0, 100, 100, Green>>, <<100, 100, 100, 100, White>> }

\* (x, y, color, c): 'A', and the space, which has no outline
GlyphInputs == { <<50, 50, White, 65>>, <<50, 50, White, 32>> }

\* variant of InitialBuffer: created with room for data, still without
\* COPY_DST
InitialBuffer_Preallocated == [id |-> 0, size |-> 1024, data |-> <<>>, copy_dst |-> FALSE]

(***************************************************************************)
(* GPU buffers.                                                            *)
(***************************************************************************)
\* device.create_buffer_init with empty contents and VERTEX / INDEX usage
InitialBuffer == [id |-> 0, size |-> 0, data |-> <<>>, copy_dst |-> FALSE]

\* device.create_buffer_init(contents, usage | COPY_DST) replacing buffer old
CreateBufferInit(old, contents, elem_size) ==
  [id |-> old.id + 1, size |-> Len(contents) * elem_size,
   data |-> contents, copy_dst |-> TRUE]

\* queue.write_buffer(buf, 0, contents): the outcome of wgpu's validation
WriteBufferError(buf, contents, elem_size) ==
  IF ~buf.copy_dst THEN "write_buffer_usage"
  ELSE IF Len(contents) * elem_size > buf.size THEN "write_buffer_overrun"
  ELSE "none"

\* queue.write_buffer(buf, 0, contents): the leading elements are replaced,
\* the tail keeps what it held
WriteBuffer(buf, contents) ==
  [buf EXCEPT !.data = contents \o SubSeq(buf.data, Len(contents) + 1, Len(buf.data))]

\* variant of GrowOrWrite: the buffer is replaced whenever its capacity
\* differs from the content's size, so it shrinks with the content
GrowOrWrite_ShrinkToFit(buf, contents, check_size, elem_size) ==
  IF buf.size # Len(contents) * check_size
  THEN [buf |-> CreateBufferInit(buf, contents, elem_size), err |-> "none"]
  ELSE LET e == WriteBufferError(buf, contents, elem_size)
       IN  [buf |-> IF e = "none" THEN WriteBuffer(buf, contents) ELSE buf, err |-> e]

\* variant of GrowOrWrite: <= in place of <, so a buffer that exactly fits
\* is replaced
GrowOrWrite_ReplaceWhenEqual(buf, contents, check_size, elem_size) ==
  IF buf.size <= Len(contents) * check_size
  THEN [buf |-> CreateBufferInit(buf, contents, elem_size), err |-> "none"]
  ELSE LET e == WriteBufferError(buf, contents, elem_size)
       IN  [buf |-> IF e = "none" THEN WriteBuffer(buf, contents) ELSE buf, err |-> e]

\* one grow-or-write branch of upload_data: check_size is the element size the
\* capacity test multiplies by, elem_size the size of the elements written
GrowOrWrite(buf, contents, check_size, elem_size) ==
  IF buf.size < Len(contents) * check_size
  THEN [buf |-> CreateBufferInit(buf, contents, elem_size), err |-> "none"]
  ELSE LET e == WriteBufferError(buf, contents, elem_size)
       IN  [buf |-> IF e = "none" THEN WriteBuffer(buf, contents) ELSE buf, err |-> e]

(***************************************************************************)
(* The batches.                                                            *)
(***************************************************************************)
\* QuadRenderer::new / FontRenderer::new
NewBatch == [vertices |-> <<>>, indices |-> <<>>, has_data |-> FALSE,
             vbo |-> InitialBuffer, ibo |-> InitialBuffer]

\* variant of QuadVertices: the last two corners in the opposite order
QuadVertices_CornersSwapped(x, y, w, h, color) ==
  << [pos |-> <<x, y, 0>>,         color |-> color],
     [pos |-> <<x + w, y, 0>>,     color |-> color],
     [pos |-> <<x, y + h, 0>>,     color |-> color],
     [pos |-> <<x + w, y + h, 0>>, color |-> color] >>

\* the four vertices QuadRenderer::push appends
QuadVertices(x, y, w, h, color) ==
  << [pos |-> <<x, y, 0>>,         color |-> color],
     [pos |-> <<x + w, y, 0>>,     color |-> color],
     [pos |-> <<x + w, y + h, 0>>, color |-> color],
     [pos |-> <<x, y + h, 0>>,     color |-> color] >>

\* variant of QuadIndices: one triangle per quad
QuadIndices_OneTriangle(start) ==
  << start, AddU16(start, 1), AddU16(start, 2) >>

\* variant of QuadIndices: one triangle and a half
QuadIndices_FiveIndices(start) ==
  << start, AddU16(start, 1), AddU16(start, 2), start, AddU16(start, 2) >>

\* the six indices push appends
QuadIndices(start) ==
  << start, AddU16(start, 1), AddU16(start, 2),
     start, AddU16(start, 2), AddU16(start, 3) >>

\* QuadRenderer::push
QuadRenderer_push(b, x, y, w, h, color) ==
  LET start == AsU16(Len(b.vertices))
  IN  [b EXCEPT !.has_data = TRUE,
                !.vertices = b.vertices \o QuadVertices(x, y, w, h, color),
                !.indices  = b.indices \o QuadIndices(start)]

\* the four vertices FontRenderer::push appends
GlyphVertices(x, y, color, uv, w, h) ==
  << [pos |-> <<x, y, 0>>,         texture_coords |-> <<uv[1], uv[2]>>, color |-> color],
     [pos |-> <<x + w, y, 0>>,     texture_coords |-> <<uv[3], uv[2]>>, color |-> color],
     [pos |-> <<x + w, y + h, 0>>, texture_coords |-> <<uv[3], uv[4]>>, color |-> color],
     [pos |-> <<x, y + h, 0>>,     texture_coords |-> <<uv[1], uv[4]>>, color |-> color] >>

\* FontRenderer::push: has_data is set first, then glyph_map.get(&c).unwrap()
\* panics when c has no entry
FontRenderer_push(b, x, y, color, c, atlas) ==
  IF c \notin DOMAIN atlas.glyph_map
  THEN [b |-> [b EXCEPT !.has_data = TRUE], err |-> "unwrap_none"]
  ELSE LET start == AsU16(Len(b.vertices))
           uv == atlas.glyph_map[c]
       IN  [b |-> [b EXCEPT !.has_data = TRUE,
                            !.vertices = b.vertices
                               \o GlyphVertices(x, y, color, uv,
                                                atlas.cell_size[1], atlas.cell_size[2]),
                            !.indices  = b.indices \o QuadIndices(start)],
            err |-> "none"]

\* variant of clear: vertices.clear() is missing
clear_KeepsVertices(b) == [b EXCEPT !.indices = <<>>, !.has_data = FALSE]

\* variant of clear: the GPU buffers are released with the lists
clear_ReleasesBuffers(b) ==
  [b EXCEPT !.indices = <<>>, !.vertices = <<>>, !.has_data = FALSE,
            !.vbo = InitialBuffer, !.ibo = InitialBuffer]

\* QuadRenderer::clear / FontRenderer::clear
clear(b) == [b EXCEPT !.indices = <<>>, !.vertices = <<>>, !.has_data = FALSE]

\* QuadRenderer::empty / FontRenderer::empty
empty(b) == b.vertices = <<>>

\* upload_data: the vertex buffer, then (unless the write panicked) the index
\* buffer
upload_data(b, check_size, elem_size) ==
  IF b.vertices = <<>> THEN [b |-> b, err |-> "none"]
  ELSE LET v == GrowOrWrite(b.vbo, b.vertices, check_size, elem_size)
           i == GrowOrWrite(b.ibo, b.indices, IndexSize, IndexSize)
       IN  IF v.err # "none"
           THEN [b |-> b, err |-> v.err]
           ELSE [b |-> [b EXCEPT !.vbo = v.buf, !.ibo = i.buf], err |-> i.err]

\* QuadRenderer::upload_data
QuadRenderer_upload_data(b) == upload_data(b, VertexSize, VertexSize)

\* FontRenderer::upload_data: the capacity test multiplies by
\* size_of::<Vertex>(), the data written are FontVertex
FontRenderer_upload_data(b) == upload_data(b, VertexSize, FontVertexSize)

\* variant of FlushCommands: the draw covers every index the buffer holds
FlushCommands_WholeBuffer(name, b, atlas_bound) ==
  << [op |-> "set_pipeline", batch |-> name],
     [op |-> "set_bind_group", batch |-> name, slot |-> 0, group |-> "camera"] >>
  \o (IF atlas_bound
      THEN << [op |-> "set_bind_group", batch |-> name, slot |-> 1, group |-> "atlas"] >>
      ELSE << >>)
  \o << [op |-> "set_vertex_buffer", batch |-> name, slot |-> 0, buffer |-> b.vbo.id],
        [op |-> "set_index_buffer", batch |-> name, buffer |-> b.ibo.id, format |-> "Uint16"],
        [op |-> "draw_indexed", batch |-> name, first |-> 0, count |-> Len(b.ibo.data)] >>

\* the commands flush records into the render pass after the upload
FlushCommands(name, b, atlas_bound) ==
  << [op |-> "set_pipeline", batch |-> name],
     [op |-> "set_bind_group", batch |-> name, slot |-> 0, group |-> "camera"] >>
  \o (IF atlas_bound
      THEN << [op |-> "set_bind_group", batch |-> name, slot |-> 1, group |-> "atlas"] >>
      ELSE << >>)
  \o << [op |-> "set_vertex_buffer", batch |-> name, slot |-> 0, buffer |-> b.vbo.id],
        [op |-> "set_index_buffer", batch |-> name, buffer |-> b.ibo.id, format |-> "Uint16"],
        [op |-> "draw_indexed", batch |-> name, first |-> 0, count |-> Len(b.indices)] >>

\* variant of QuadRenderer::flush: the batch is drawn without the upload
QuadRenderer_flush_NoUpload(b) ==
  IF b.has_data
  THEN [b |-> b, err |-> "none", cmds |-> FlushCommands("quad", b, FALSE)]
  ELSE [b |-> b, err |-> "none", cmds |-> <<>>]

\* variant of QuadRenderer::flush: the has_data test is missing
QuadRenderer_flush_Unconditional(b) ==
  LET u == QuadRenderer_upload_data(b)
  IN  [b |-> u.b, err |-> u.err,
       cmds |-> IF u.err = "none" THEN FlushCommands("quad", u.b, FALSE) ELSE <<>>]

\* QuadRenderer::flush
QuadRenderer_flush(b) ==
  IF b.has_data
  THEN LET u == QuadRenderer_upload_data(b)
       IN  [b |-> u.b, err |-> u.err,
            cmds |-> IF u.err = "none" THEN FlushCommands("quad", u.b, FALSE) ELSE <<>>]
  ELSE [b |-> b, err |-> "none", cmds |-> <<>>]

\* FontRenderer::flush
FontRenderer_flush(b) ==
  IF b.has_data
  THEN LET u == FontRenderer_upload_data(b)
       IN  [b |-> u.b, err |-> u.err,
            cmds |-> IF u.err = "none" THEN FlushCommands("font", u.b, TRUE) ELSE <<>>]
  ELSE [b |-> b, err |-> "none", cmds |-> <<>>]

\* quad/renderer.rs, QuadRenderer::upload_data and QuadRenderer::flush of the
\* standalone module
Standalone_QuadRenderer_upload_data(b) == upload_data(b, VertexSize, VertexSize)

Standalone_QuadRenderer_flush(b) ==
  IF b.has_data
  THEN LET u == Standalone_QuadRenderer_upload_data(b)
       IN  [b |-> u.b, err |-> u.err,
            cmds |-> IF u.err = "none" THEN FlushCommands("quad", u.b, FALSE) ELSE <<>>]
  ELSE [b |-> b, err |-> "none", cmds |-> <<>>]

\* font/renderer.rs, FontRenderer::upload_data and FontRenderer::flush of the
\* standalone module: the capacity test multiplies by size_of::<FontVertex>()
Standalone_FontRenderer_upload_data(b) ==
  upload_data(b, FontVertexSize, FontVertexSize)

Standalone_FontRenderer_flush(b) ==
  IF b.has_data
  THEN LET u == Standalone_FontRenderer_upload_data(b)
       IN  [b |-> u.b, err |-> u.err,
            cmds |-> IF u.err = "none" THEN FlushCommands("font", u.b, TRUE) ELSE <<>>]
  ELSE [b |-> b, err |-> "none", cmds |-> <<>>]

(***************************************************************************)
(* f32 arithmetic, as far as the projection needs it.  A value is a pair   *)
(* <<n, d>>: the fraction n/d in lowest terms with d > 0, or with d = 0    *)
(* one of IEEE 754's special values: <<1, 0>> is +inf, <<-1, 0>> is -inf,  *)
(* <<0, 0>> is NaN.  The viewport sizes explored are powers of two, on     *)
(* which the f32 operations below are exact.                               *)
(***************************************************************************)
\* An operator's arguments are bound to their values by the set constructors
\* below, so that each argument is computed once.
Sgn(n) == IF n > 0 THEN 1 ELSE IF n < 0 THEN -1 ELSE 0

Abs(n) == IF n < 0 THEN -n ELSE n

RECURSIVE GCD(_, _)
GCD(a, b) ==
  CHOOSE g \in { IF y = 0 THEN x ELSE GCD(y, x % y) : x \in {a}, y \in {b} } : TRUE

F32(n, d) ==
  CHOOSE r \in { IF y = 0 THEN <<Sgn(x), 0>>
                 ELSE <<(Sgn(y) * x) \div GCD(Abs(x), Abs(y)),
                        Abs(y) \div GCD(Abs(x), Abs(y))>> : x \in {n}, y \in {d} } : TRUE

F32_neg(a) == CHOOSE r \in { <<-x[1], x[2]>> : x \in {a} } : TRUE

F32_add(a, b) ==
  CHOOSE r \in
    { IF x[2] # 0 /\ y[2] # 0 THEN F32(x[1] * y[2] + y[1] * x[2], x[2] * y[2])
      ELSE IF x = <<0, 0>> \/ y = <<0, 0>> THEN <<0, 0>>
      ELSE IF x[2] # 0 THEN y
      ELSE IF y[2] # 0 THEN x
      ELSE IF x = y THEN x ELSE <<0, 0>> : x \in {a}, y \in {b} } : TRUE

F32_sub(a, b) == F32_add(a, F32_neg(b))

F32_mul(a, b) ==
  CHOOSE r \in { F32(x[1] * y[1], x[2] * y[2]) : x \in {a}, y \in {b} } : TRUE

F32_div(a, b) ==
  CHOOSE r \in
    { IF y[2] = 0 THEN (IF x[2] = 0 \/ y[1] = 0 THEN <<0, 0>> ELSE <<0, 1>>)
      ELSE F32(x[1] * y[2] * (IF y[1] < 0 THEN -1 ELSE 1), x[2] * Abs(y[1]))
      : x \in {a}, y \in {b} } : TRUE

(***************************************************************************)
(* The camera.  A matrix is the tuple of its four columns, as cgmath's     *)
(* Matrix4 and the [[f32; 4]; 4] made from it.                             *)
(***************************************************************************)
OPENGL_TO_WGPU_MATRIX ==
  << << <<1, 1>>, <<0, 1>>, <<0, 1>>, <<0, 1>> >>,
     << <<0, 1>>, <<1, 1>>, <<0, 1>>, <<0, 1>> >>,
     << <<0, 1>>, <<0, 1>>, <<1, 2>>, <<0, 1>> >>,
     << <<0, 1>>, <<0, 1>>, <<1, 2>>, <<1, 1>> >> >>

\* cgmath::ortho
ortho(left, right, bottom, top, near, far) ==
  LET two == <<2, 1>>
      zero == <<0, 1>>
      c0r0 == F32_div(two, F32_sub(right, left))
      c1r1 == F32_div(two, F32_sub(top, bottom))
      c2r2 == F32_div(F32_neg(two), F32_sub(far, near))
      c3r0 == F32_div(F32_neg(F32_add(right, left)), F32_sub(right, left))
      c3r1 == F32_div(F32_neg(F32_add(top, bottom)), F32_sub(top, bottom))
      c3r2 == F32_div(F32_neg(F32_add(far, near)), F32_sub(far, near))
  IN  << <<c0r0, zero, zero, zero>>,
         <<zero, c1r1, zero, zero>>,
         <<zero, zero, c2r2, zero>>,
         <<c3r0, c3r1, c3r2, <<1, 1>> >> >>

\* Matrix4 * Vector4: the columns of m scaled by the components of v, summed
Matrix4_mul_vector(m, v) ==
  CHOOSE p \in
    { [r \in 1..4 |->
         F32_add(F32_add(F32_add(F32_mul(x[1][r], y[1]), F32_mul(x[2][r], y[2])),
                         F32_mul(x[3][r], y[3])),
                 F32_mul(x[4][r], y[4]))] : x \in {m}, y \in {v} } : TRUE

\* Matrix4 * Matrix4: column by column
Matrix4_mul(a, b) ==
  CHOOSE p \in { [c \in 1..4 |-> Matrix4_mul_vector(x, y[c])] : x \in {a}, y \in {b} } : TRUE

\* variant of build_proj: bottom and top exchanged, so y grows upwards
build_proj_YUp(sz) ==
  Matrix4_mul(OPENGL_TO_WGPU_MATRIX,
              ortho(<<0, 1>>, <<sz[1], 1>>, <<0, 1>>, <<sz[2], 1>>, <<0, 1>>, <<2, 1>>))

\* Camera::build_proj; a size is <<width, height>>
build_proj(sz) ==
  Matrix4_mul(OPENGL_TO_WGPU_MATRIX,
              ortho(<<0, 1>>, <<sz[1], 1>>, <<sz[2], 1>>, <<0, 1>>, <<0, 1>>, <<2, 1>>))

\* bytemuck::cast_slice(&[m]): the sixteen f32 of the matrix, column by column
MatrixFloats(m) == m[1] \o m[2] \o m[3] \o m[4]

F32Size == 4

Camera_new_from_size(sz) ==
  CHOOSE cam \in
    { [size |-> sz,
       uniform_buffer |-> CreateBufferInit(InitialBuffer, MatrixFloats(proj), F32Size),
       view_proj |-> proj] : proj \in {build_proj(sz)} } : TRUE

Camera_resize(cam, new_size) ==
  CHOOSE r \in
    { LET e == WriteBufferError(cam.uniform_buffer, MatrixFloats(view_proj), F32Size)
      IN  [cam |-> [cam EXCEPT
                      !.size = new_size,
                      !.view_proj = view_proj,
                      !.uniform_buffer =
                         IF e = "none" THEN WriteBuffer(@, MatrixFloats(view_proj)) ELSE @],
           err |-> e] : view_proj \in {build_proj(new_size)} } : TRUE

\* Renderer::configure_surface: wgpu's Surface::configure rejects a
\* configuration whose width or height is zero, and the error is fatal
configure_surface(cfg, sz) ==
  IF sz[1] = 0 \/ sz[2] = 0
  THEN [surface |-> cfg, err |-> "configure_zero_area"]
  ELSE [surface |-> [width |-> sz[1], height |-> sz[2]], err |-> "none"]

\* Renderer::resize
Renderer_resize(cam, cfg, new_size) ==
  CHOOSE r \in
    { IF c.err # "none"
      THEN [size |-> new_size, camera |-> c.cam, surface |-> cfg, err |-> c.err]
      ELSE [size |-> new_size, camera |-> c.cam, surface |-> s.surface, err |-> s.err]
      : c \in {Camera_resize(cam, new_size)}, s \in {configure_surface(cfg, new_size)} } : TRUE

(***************************************************************************)
(* The state machine.                                                      *)
(***************************************************************************)
\* what the model records of the operation just performed
\* (repeated: the operation before it was the same operation)
Did(op, arg, result) ==
  [op |-> op, arg |-> arg, result |-> result, repeated |-> last.op = op]

\* the result of an operation that returns () or panics
Outcome(err) == IF err = "none" THEN "unit" ELSE "panic"

\* the sizes at which pushes are explored: up to the bound, and around the
\* end of the 16-bit index space
NearFullQuads == (U16Modulus \div 4) - 1

PushExplored(n, max) ==
  \/ n < 4 * max
  \/ n >= 4 * NearFullQuads /\ n < U16Modulus + 4 * OverflowQuads

\* the batch after k pushes of the same quad into a new batch, built by
\* halving the run of pushes: quads first..first+k-1 of the batch
RECURSIVE PushedVertices(_, _), PushedIndices(_, _)
PushedVertices(k, quad_vertices) ==
  IF k = 0 THEN <<>>
  ELSE IF k = 1 THEN quad_vertices
  ELSE PushedVertices(k \div 2, quad_vertices)
         \o PushedVertices(k - (k \div 2), quad_vertices)

PushedIndices(first, k) ==
  IF k = 0 THEN <<>>
  ELSE IF k = 1 THEN QuadIndices(AsU16(4 * first))
  ELSE PushedIndices(first, k \div 2)
         \o PushedIndices(first + (k \div 2), k - (k \div 2))

FilledBatch(k, quad_vertices) ==
  [NewBatch EXCEPT !.vertices = PushedVertices(k, quad_vertices),
                   !.indices = PushedIndices(0, k),
                   !.has_data = k > 0]

\* the window's inner size when the Renderer is created
DefaultSize == <<4, 2>>

\* characters beyond the printable ASCII range: a control character, DEL and
\* the inverted exclamation mark
OtherChars == {31, 127, 161}

\* a font: the printable ASCII characters it has no outline for, the other
\* characters it has an outline for, and the cell size the bounding box of
\* its 'M' gives; the embedded font lacks the space
EmbeddedFont ==
  [missing |-> {FirstChar}, extra |-> {161}, cell_w |-> CellW, cell_h |-> CellH]

\* Renderer::new: the atlas made from the font
AtlasOf(fnt) ==
  create_monospace_atlas(((FirstChar..LastChar) \ fnt.missing) \cup fnt.extra,
                         fnt.cell_w, fnt.cell_h)

\* Renderer::new (the batches apart) followed by App::resumed's
\* request_redraw: the size is the window's, the camera and the surface
\* configuration are made from it, the atlas (AtlasOf(font)) from the font
RendererNew(sz, fnt) ==
  /\ size = sz
  /\ camera = Camera_new_from_size(sz)
  /\ surface = [width |-> sz[1], height |-> sz[2]]
  /\ font = fnt
  /\ app = [exiting |-> FALSE, redraw_requested |-> TRUE]
  /\ ops = <<>>

Init ==
  /\ quad_renderer = NewBatch
  /\ font_renderer = NewBatch
  /\ pass = <<>>
  /\ last = [op |-> "new", arg |-> <<>>, result |-> "unit", repeated |-> FALSE]
  /\ aborted = "none"
  /\ RendererNew(DefaultSize, EmbeddedFont)

QuadPush ==
  /\ aborted = "none"
  /\ PushExplored(Len(quad_renderer.vertices), MaxQuads)
  /\ \E in \in QuadInputs :
       /\ quad_renderer' = QuadRenderer_push(quad_renderer, in[1], in[2], in[3], in[4], in[5])
       /\ last' = Did("quad_push", in, "unit")
  /\ pass' = <<>>
  /\ UNCHANGED <<font_renderer, aborted>>
  /\ UNCHANGED windowing

FontPush ==
  /\ aborted = "none"
  /\ PushExplored(Len(font_renderer.vertices), MaxGlyphs)
  /\ \E in \in GlyphInputs :
       LET r == FontRenderer_push(font_renderer, in[1], in[2], in[3], in[4], font_atlas)
       IN  /\ font_renderer' = r.b
           /\ aborted' = r.err
           /\ last' = Did("font_push", in, Outcome(r.err))
  /\ pass' = <<>>
  /\ UNCHANGED quad_renderer
  /\ UNCHANGED windowing

QuadClear ==
  /\ aborted = "none"
  /\ quad_renderer' = clear(quad_renderer)
  /\ last' = Did("quad_clear", <<>>, "unit")
  /\ pass' = <<>>
  /\ UNCHANGED <<font_renderer, aborted>>
  /\ UNCHANGED windowing

FontClear ==
  /\ aborted = "none"
  /\ font_renderer' = clear(font_renderer)
  /\ last' = Did("font_clear", <<>>, "unit")
  /\ pass' = <<>>
  /\ UNCHANGED <<quad_renderer, aborted>>
  /\ UNCHANGED windowing

QuadUpload ==
  /\ aborted = "none"
  /\ LET u == QuadRenderer_upload_data(quad_renderer)
     IN  /\ quad_renderer' = u.b
         /\ aborted' = u.err
         /\ last' = Did("quad_upload", <<>>, Outcome(u.err))
  /\ pass' = <<>>
  /\ UNCHANGED font_renderer
  /\ UNCHANGED windowing

FontUpload ==
  /\ aborted = "none"
  /\ LET u == FontRenderer_upload_data(font_renderer)
     IN  /\ font_renderer' = u.b
         /\ aborted' = u.err
         /\ last' = Did("font_upload", <<>>, Outcome(u.err))
  /\ pass' = <<>>
  /\ UNCHANGED quad_renderer
  /\ UNCHANGED windowing

\* Renderer::begin_frame
BeginFrame ==
  /\ aborted = "none"
  /\ quad_renderer' = clear(quad_renderer)
  /\ font_renderer' = clear(font_renderer)
  /\ last' = Did("begin_frame", <<>>, "unit")
  /\ pass' = <<>>
  /\ UNCHANGED aborted
  /\ UNCHANGED windowing

\* Renderer::end_frame: returns before any upload when either batch is empty
Renderer_end_frame(q, f) ==
  IF empty(q) THEN [q |-> q, f |-> f, err |-> "none"]
  ELSE IF empty(f) THEN [q |-> q, f |-> f, err |-> "none"]
  ELSE LET uq == QuadRenderer_upload_data(q)
           uf == FontRenderer_upload_data(f)
       IN  IF uq.err # "none"
           THEN [q |-> uq.b, f |-> f, err |-> uq.err]
           ELSE [q |-> uq.b, f |-> uf.b, err |-> uf.err]

EndFrame ==
  /\ aborted = "none"
  /\ LET e == Renderer_end_frame(quad_renderer, font_renderer)
     IN  /\ quad_renderer' = e.q
         /\ font_renderer' = e.f
         /\ aborted' = e.err
         /\ last' = Did("end_frame", <<>>, Outcome(e.err))
  /\ pass' = <<>>
  /\ UNCHANGED windowing

\* Renderer::render: one render pass, the quad batch flushed, then the glyph
\* batch; a panic inside a flush ends the process with the pass unfinished
Renderer_render(q, f) ==
  LET begin == << [op |-> "begin_render_pass", load |-> "Clear(BLACK)"] >>
      fq == QuadRenderer_flush(q)
      ff == FontRenderer_flush(f)
      finish == << [op |-> "end_render_pass"], [op |-> "submit"], [op |-> "present"] >>
  IN  IF fq.err # "none"
      THEN [q |-> fq.b, f |-> f, err |-> fq.err, cmds |-> begin \o fq.cmds]
      ELSE IF ff.err # "none"
      THEN [q |-> fq.b, f |-> ff.b, err |-> ff.err, cmds |-> begin \o fq.cmds \o ff.cmds]
      ELSE [q |-> fq.b, f |-> ff.b, err |-> "none",
            cmds |-> begin \o fq.cmds \o ff.cmds \o finish]

Render ==
  /\ aborted = "none"
  /\ LET r == Renderer_render(quad_renderer, font_renderer)
     IN  /\ quad_renderer' = r.q
         /\ font_renderer' = r.f
         /\ aborted' = r.err
         /\ pass' = r.cmds
         /\ last' = Did("render", <<>>, Outcome(r.err))
  /\ UNCHANGED windowing

Next ==
  \/ QuadPush
  \/ FontPush
  \/ QuadClear
  \/ FontClear
  \/ QuadUpload
  \/ FontUpload
  \/ BeginFrame
  \/ EndFrame
  \/ Render

Spec == Init /\ [][Next]_vars

(***************************************************************************)
(* The CPU side of the batches around the end of the 16-bit index space:   *)
(* both batches start three vertices short of 65536 indices' worth, after  *)
(* NearFullQuads pushes with no clear, and are pushed into and cleared.    *)
(***************************************************************************)
InitFull ==
  /\ quad_renderer = FilledBatch(NearFullQuads, QuadVertices(0, 0, 100, 100, Green))
  /\ font_renderer =
       FilledBatch(NearFullQuads,
                   GlyphVertices(50, 50, White, font_atlas.glyph_map[65],
                                 font_atlas.cell_size[1], font_atlas.cell_size[2]))
  /\ pass = <<>>
  /\ last = [op |-> "new", arg |-> <<>>, result |-> "unit", repeated |-> FALSE]
  /\ aborted = "none"
  /\ RendererNew(DefaultSize, EmbeddedFont)

NextFull ==
  \/ QuadPush
  \/ FontPush
  \/ QuadClear
  \/ FontClear

SpecFull == InitFull /\ [][NextFull]_vars

(***************************************************************************)
(* The application.  App::resumed has created the window and the Renderer  *)
(* and requested the first redraw; from then on the event loop hands       *)
(* window events to App::window_event, one at a time, until                *)
(* event_loop.exit() is called.  Every event, whatever it is, first        *)
(* rebuilds the frame (begin_frame, one quad, the glyph 'A', end_frame);   *)
(* ops is the list of the batch operations the handler just run performed, *)
(* in order, each a pair <<batch, operation>>.  The font is either the     *)
(* embedded one or one that lacks an outline for 'A'.                      *)
(***************************************************************************)
\* viewport widths and heights are 0 and the powers of two up to 2^MaxSizeLog
MaxSizeLog == 2

RECURSIVE Pow2(_)
Pow2(k) == IF k = 0 THEN 1 ELSE 2 * Pow2(k - 1)

SizeValues == {0} \cup {Pow2(k) : k \in 0..MaxSizeLog}

WindowSizes == SizeValues \X SizeValues

AppFonts == { EmbeddedFont, [EmbeddedFont EXCEPT !.missing = @ \cup {65}] }

\* the batch operations of Renderer::end_frame
EndFrameOps(q, f) ==
  IF empty(q) \/ empty(f) THEN <<>>
  ELSE IF QuadRenderer_upload_data(q).err # "none" THEN <<>>
  ELSE << <<"quad", "upload">> >>
       \o (IF FontRenderer_upload_data(f).err # "none" THEN <<>>
           ELSE << <<"font", "upload">> >>)

\* the batch operations of one flush: the upload flush makes when the batch
\* has data, then the flush itself
FlushOps(name, b, fl) ==
  IF fl.err # "none" THEN <<>>
  ELSE (IF b.has_data THEN << <<name, "upload">> >> ELSE <<>>) \o << <<name, "flush">> >>

\* the batch operations of Renderer::render
RenderOps(q, f) ==
  LET fq == QuadRenderer_flush(q)
  IN  FlushOps("quad", q, fq)
      \o (IF fq.err # "none" THEN <<>> ELSE FlushOps("font", f, FontRenderer_flush(f)))

\* variant of App_frame: the handler does not call end_frame
App_frame_NoEndFrame(q, f, atl) ==
  CHOOSE fr \in
    { [q |-> q1, f |-> p.b, err |-> p.err,
       ops |-> << <<"quad", "clear">>, <<"font", "clear">>, <<"quad", "push">> >>
               \o (IF p.err # "none" THEN <<>> ELSE << <<"font", "push">> >>)]
      : q1 \in {QuadRenderer_push(clear(q), 0, 0, 100, 100, Green)},
        p \in {FontRenderer_push(clear(f), 50, 50, White, 65, a) : a \in {atl}} } : TRUE

\* variant of App_frame: the handler does not call begin_frame
App_frame_NoBeginFrame(q, f, atl) ==
  CHOOSE fr \in
    { LET begun == << <<"quad", "push">> >>
      IN  IF p.err # "none"
          THEN [q |-> q1, f |-> p.b, err |-> p.err, ops |-> begun]
          ELSE CHOOSE fr2 \in
                 { [q |-> e.q, f |-> e.f, err |-> e.err,
                    ops |-> begun \o << <<"font", "push">> >> \o EndFrameOps(q1, p.b)]
                   : e \in {Renderer_end_frame(q1, p.b)} } : TRUE
      : q1 \in {QuadRenderer_push(q, 0, 0, 100, 100, Green)},
        p \in {FontRenderer_push(f, 50, 50, White, 65, a) : a \in {atl}} } : TRUE

\* the head of App::window_event, before the match on the event
App_frame(q, f, atl) ==
  CHOOSE fr \in
    { LET begun == << <<"quad", "clear">>, <<"font", "clear">>, <<"quad", "push">> >>
      IN  IF p.err # "none"
          THEN [q |-> q1, f |-> p.b, err |-> p.err, ops |-> begun]
          ELSE CHOOSE fr2 \in
                 { [q |-> e.q, f |-> e.f, err |-> e.err,
                    ops |-> begun \o << <<"font", "push">> >> \o EndFrameOps(q1, p.b)]
                   : e \in {Renderer_end_frame(q1, p.b)} } : TRUE
      : q1 \in {QuadRenderer_push(clear(q), 0, 0, 100, 100, Green)},
        p \in {FontRenderer_push(clear(f), 50, 50, White, 65, a) : a \in {atl}} } : TRUE

\* App::window_event: the state the handler leaves, for an event of the given
\* kind (arg is the new size of a Resized event)
App_window_event(kind, arg) ==
  CHOOSE h \in
    { LET framed == [q |-> fr.q, f |-> fr.f, pass |-> <<>>, err |-> fr.err,
                     size |-> size, camera |-> camera, surface |-> surface,
                     app |-> app, ops |-> fr.ops]
      IN  IF fr.err # "none" THEN framed
          ELSE CASE kind = "CloseRequested" ->
                      [framed EXCEPT !.app.exiting = TRUE]
                 [] kind = "RedrawRequested" ->
                      CHOOSE h2 \in
                        { [framed EXCEPT !.q = r.q, !.f = r.f, !.pass = r.cmds, !.err = r.err,
                                         !.ops = @ \o RenderOps(fr.q, fr.f),
                                         !.app.redraw_requested = (r.err = "none")]
                          : r \in {Renderer_render(fr.q, fr.f)} } : TRUE
                 [] kind = "Resized" ->
                      CHOOSE h2 \in
                        { [framed EXCEPT !.size = z.size, !.camera = z.camera,
                                         !.surface = z.surface, !.err = z.err]
                          : z \in {Renderer_resize(camera, surface, arg)} } : TRUE
                 [] OTHER -> framed
      : fr \in {App_frame(quad_renderer, font_renderer, AtlasOf(font))} } : TRUE

\* the event loop hands the handler an event (until a panic or exit()), and
\* the handler runs
WindowEvent(kind, arg) ==
  /\ \E h \in {App_window_event(kind, arg)} :
       /\ quad_renderer' = h.q
       /\ font_renderer' = h.f
       /\ pass' = h.pass
       /\ aborted' = h.err
       /\ size' = h.size
       /\ camera' = h.camera
       /\ surface' = h.surface
       /\ app' = h.app
       /\ ops' = h.ops
       /\ last' = Did(kind, arg, Outcome(h.err))
  /\ UNCHANGED font

CloseRequested ==
  /\ aborted = "none"
  /\ ~app.exiting
  /\ WindowEvent("CloseRequested", <<>>)

RedrawRequested ==
  /\ aborted = "none"
  /\ ~app.exiting
  /\ WindowEvent("RedrawRequested", <<>>)

Resized ==
  /\ aborted = "none"
  /\ ~app.exiting
  /\ \E new_size \in WindowSizes : WindowEvent("Resized", new_size)

\* any other window event
OtherEvent ==
  /\ aborted = "none"
  /\ ~app.exiting
  /\ WindowEvent("Other", <<>>)

InitApp ==
  /\ quad_renderer = NewBatch
  /\ font_renderer = NewBatch
  /\ pass = <<>>
  /\ last = [op |-> "new", arg |-> <<>>, result |-> "unit", repeated |-> FALSE]
  /\ aborted = "none"
  /\ \E sz \in WindowSizes, fnt \in AppFonts :
       /\ sz[1] > 0
       /\ sz[2] > 0
       /\ RendererNew(sz, fnt)

NextApp ==
  \/ CloseRequested
  \/ RedrawRequested
  \/ Resized
  \/ OtherEvent

SpecApp == InitApp /\ [][NextApp]_vars

\* the application with the event loop's promise that a requested redraw is
\* eventually delivered: App::resumed and every handled RedrawRequested call
\* window.request_redraw()
SpecAppFair == SpecApp /\ WF_vars(app.redraw_requested /\ RedrawRequested)

(***************************************************************************)
(* The atlas of any font.  Renderer::new is about to build the atlas: the  *)
(* font is any of AtlasFonts (the printable characters it lacks an outline *)
(* for, and a cell size of at least one pixel each way), and               *)
(* create_monospace_atlas is applied to it; last.result holds the atlas.   *)
(* A font with no outline for 'M' makes the unwrap() of the test glyph     *)
(* panic.                                                                  *)
(***************************************************************************)
AtlasFonts ==
  { [missing |-> ms, extra |-> ex, cell_w |-> w, cell_h |-> h] :
      ms \in {{}} \cup { {FirstChar, c} : c \in FirstChar..LastChar },
      ex \in {{}, OtherChars},
      w \in 1..CellW, h \in 1..CellH }

InitAtlas ==
  /\ quad_renderer = NewBatch
  /\ font_renderer = NewBatch
  /\ pass = <<>>
  /\ last = [op |-> "new", arg |-> <<>>, result |-> "unit", repeated |-> FALSE]
  /\ aborted = "none"
  /\ \E fnt \in AtlasFonts : RendererNew(DefaultSize, fnt)

CreateAtlas ==
  /\ aborted = "none"
  /\ last.op = "new"
  /\ IF 77 \in font.missing
     THEN /\ aborted' = "unwrap_none"
          /\ last' = Did("create_monospace_atlas", <<>>, "panic")
     ELSE /\ aborted' = "none"
          /\ last' = Did("create_monospace_atlas", <<>>, AtlasOf(font))
  /\ UNCHANGED <<quad_renderer, font_renderer, pass, windowing>>

NextAtlas == CreateAtlas

SpecAtlas == InitAtlas /\ [][NextAtlas]_vars

(***************************************************************************)
(* Properties.                                                             *)
(***************************************************************************)
\* the GPU buffers of batch b start with its CPU lists
HoldsCpuLists(b) ==
  /\ Len(b.vbo.data) >= Len(b.vertices)
  /\ SubSeq(b.vbo.data, 1, Len(b.vertices)) = b.vertices
  /\ Len(b.ibo.data) >= Len(b.indices)
  /\ SubSeq(b.ibo.data, 1, Len(b.indices)) = b.indices

\* the positions of the pass's commands of kind op recorded for batch name
CommandsOf(op, name) ==
  {k \in 1..Len(pass) : pass[k].op = op /\ "batch" \in DOMAIN pass[k] /\ pass[k].batch = name}

\* C1: a quad push(x,y,w,h,color) on a batch of n vertices with n+4 <= 65536
\* appends exactly the vertices (x,y,0),(x+w,y,0),(x+w,y+h,0),(x,y+h,0) with
\* the given colour and the indices n,n+1,n+2,n,n+2,n+3, and leaves what
\* earlier pushes appended unchanged.
C1_QuadPushAppends ==
  [][ (last'.op = "quad_push" /\ Len(quad_renderer.vertices) + 4 <= 65536) =>
        LET n == Len(quad_renderer.vertices)
            x == last'.arg[1]
            y == last'.arg[2]
            w == last'.arg[3]
            h == last'.arg[4]
            c == last'.arg[5]
        IN  /\ quad_renderer'.vertices =
                 quad_renderer.vertices
                   \o << [pos |-> <<x, y, 0>>, color |-> c],
                         [pos |-> <<x + w, y, 0>>, color |-> c],
                         [pos |-> <<x + w, y + h, 0>>, color |-> c],
                         [pos |-> <<x, y + h, 0>>, color |-> c] >>
            /\ quad_renderer'.indices =
                 quad_renderer.indices \o <<n, n + 1, n + 2, n, n + 2, n + 3>>
    ]_vars

\* a quad push has just filled the batch to exactly 65536 vertices, on top
\* of the vertices of earlier pushes
C1_Witness ==
  /\ last.op = "quad_push"
  /\ Len(quad_renderer.vertices) = 65536
  /\ quad_renderer.indices[Len(quad_renderer.indices)] = 65535

\* C2: a push made when the batch already holds 65536 or more vertices is
\* reported as an error, and no index equal to the vertex count modulo 2^16
\* is stored.
C2_OverflowReported ==
  [][ /\ (last'.op = "quad_push" /\ Len(quad_renderer.vertices) >= 65536) =>
           /\ last'.result = "capacity_error"
           /\ quad_renderer'.indices = quad_renderer.indices
      /\ (last'.op = "font_push" /\ Len(font_renderer.vertices) >= 65536) =>
           /\ last'.result = "capacity_error"
           /\ font_renderer'.indices = font_renderer.indices
    ]_vars

\* C3: after end_frame every batch with a non-empty CPU vertex list has its
\* current vertices and indices in its GPU buffers, whatever the other batch
\* holds.
C3_EndFrameUploadsNonEmpty ==
  last.op = "end_frame" =>
    /\ quad_renderer.vertices # <<>> => HoldsCpuLists(quad_renderer)
    /\ font_renderer.vertices # <<>> => HoldsCpuLists(font_renderer)

\* C4: after upload on a non-empty batch the vertex buffer's capacity is at
\* least vertices.len() times the size of the batch's own vertex type (24 for
\* the quad batch, 32 for the glyph batch), the index buffer's at least
\* 2 * indices.len(), and no in-place write overruns its buffer.
C4_UploadCapacity ==
  /\ (last.op = "quad_upload" /\ quad_renderer.vertices # <<>>) =>
       /\ quad_renderer.vbo.size >= Len(quad_renderer.vertices) * 24
       /\ quad_renderer.ibo.size >= Len(quad_renderer.indices) * 2
  /\ (last.op = "font_upload" /\ font_renderer.vertices # <<>>) =>
       /\ font_renderer.vbo.size >= Len(font_renderer.vertices) * 32
       /\ font_renderer.ibo.size >= Len(font_renderer.indices) * 2
  /\ aborted # "write_buffer_overrun"

\* C5: pushing a glyph whose character has no entry in glyph_map returns a
\* lookup error from push; the process is not aborted and the glyph is not
\* silently skipped.
C5_MissingGlyphReported ==
  (last.op = "font_push" /\ last.arg[4] \notin DOMAIN font_atlas.glyph_map) =>
    /\ aborted = "none"
    /\ last.result = "lookup_error"

\* capacities of batch b do not decrease in a step to b2, and a buffer of b
\* large enough for the content of b2 is still the buffer of b2
CapacityKept(b, b2, vertex_size) ==
  /\ b2.vbo.size >= b.vbo.size
  /\ b2.ibo.size >= b.ibo.size
  /\ Len(b2.vertices) * vertex_size <= b.vbo.size => b2.vbo.id = b.vbo.id
  /\ Len(b2.indices) * 2 <= b.ibo.size => b2.ibo.id = b.ibo.id

\* C6: over any sequence of operations the byte capacity of a batch's vertex
\* buffer and of its index buffer never decreases, and a buffer whose
\* capacity covers the content is reused, not replaced.
C6_CapacityMonotonic ==
  [][ /\ CapacityKept(quad_renderer, quad_renderer', 24)
      /\ CapacityKept(font_renderer, font_renderer', 32) ]_vars

\* an upload has written a smaller batch in place into a buffer that an
\* earlier, larger batch allocated
C6_Witness ==
  /\ last.op = "quad_upload"
  /\ quad_renderer.vertices # <<>>
  /\ quad_renderer.vbo.size > Len(quad_renderer.vertices) * 24
  /\ HoldsCpuLists(quad_renderer)

\* C7: an upload directly after an upload of the same batch reallocates
\* nothing and leaves the contents of the GPU buffers as they were.
C7_UploadIdempotent ==
  [][ /\ (last.op = "quad_upload" /\ last'.op = "quad_upload") =>
           /\ quad_renderer'.vbo = quad_renderer.vbo
           /\ quad_renderer'.ibo = quad_renderer.ibo
      /\ (last.op = "font_upload" /\ last'.op = "font_upload") =>
           /\ font_renderer'.vbo = font_renderer.vbo
           /\ font_renderer'.ibo = font_renderer.ibo
    ]_vars

\* the glyph batch, non-empty, has been uploaded twice in a row
C7_Witness ==
  /\ last.op = "font_upload"
  /\ last.repeated
  /\ aborted = "none"
  /\ font_renderer.vertices # <<>>
  /\ HoldsCpuLists(font_renderer)

\* C8: for either batch empty() is true right after clear() and false right
\* after a successful push().
C8_EmptyAfterClearAndPush ==
  /\ last.op = "quad_clear" => empty(quad_renderer)
  /\ last.op = "font_clear" => empty(font_renderer)
  /\ (last.op = "quad_push" /\ last.result = "unit") => ~empty(quad_renderer)
  /\ (last.op = "font_push" /\ last.result = "unit") => ~empty(font_renderer)

\* a batch that had been pushed into and uploaded has just been cleared
C8_Witness ==
  /\ last.op = "quad_clear"
  /\ quad_renderer.vbo.size > 0
  /\ empty(quad_renderer)

\* C9: flush on a batch whose has_data is false records no command in the
\* pass and leaves the batch (CPU lists, flag, GPU buffers) unchanged.
C9_FlushWithoutDataIsNoOp ==
  [][ last'.op = "render" =>
        /\ ~quad_renderer.has_data =>
             /\ quad_renderer' = quad_renderer
             /\ \A k \in 1..Len(pass') :
                  "batch" \in DOMAIN pass'[k] => pass'[k].batch # "quad"
        /\ ~font_renderer.has_data =>
             /\ font_renderer' = font_renderer
             /\ \A k \in 1..Len(pass') :
                  "batch" \in DOMAIN pass'[k] => pass'[k].batch # "font"
    ]_vars

\* a render in which the quad batch had no data and the glyph batch was drawn
C9_Witness ==
  /\ last.op = "render"
  /\ ~quad_renderer.has_data
  /\ quad_renderer.vbo.size > 0
  /\ CommandsOf("draw_indexed", "quad") = {}
  /\ CommandsOf("draw_indexed", "font") # {}

\* C10: every render() opens exactly one render pass, in which each batch
\* with data issues exactly one indexed draw over 0..indices.len(), the quad
\* batch's before the glyph batch's.
C10_RenderDrawsInOrder ==
  last.op = "render" =>
    /\ {k \in 1..Len(pass) : pass[k].op = "begin_render_pass"} = {1}
    /\ quad_renderer.has_data =>
         /\ Cardinality(CommandsOf("draw_indexed", "quad")) = 1
         /\ \A k \in CommandsOf("draw_indexed", "quad") :
              pass[k].first = 0 /\ pass[k].count = Len(quad_renderer.indices)
    /\ font_renderer.has_data =>
         /\ Cardinality(CommandsOf("draw_indexed", "font")) = 1
         /\ \A k \in CommandsOf("draw_indexed", "font") :
              pass[k].first = 0 /\ pass[k].count = Len(font_renderer.indices)
    /\ \A i \in CommandsOf("draw_indexed", "quad") :
         \A j \in CommandsOf("draw_indexed", "font") : i < j

\* C11: in the application, whenever render() has run, the quad batch holds
\* exactly 4 vertices and 6 indices and the glyph batch holds exactly 4
\* vertices and 6 indices, whatever events came before; and with 'A' in the
\* atlas no event aborts the process.
C11_OneQuadOneGlyphPerFrame ==
  /\ last.op = "RedrawRequested" /\ pass # <<>> =>
       /\ Len(quad_renderer.vertices) = 4
       /\ Len(quad_renderer.indices) = 6
       /\ Len(font_renderer.vertices) = 4
       /\ Len(font_renderer.indices) = 6
  /\ 65 \notin font.missing => aborted = "none"

\* the operations the handler just run performed on the batch of that name
OpsOf(name) ==
  LET mine == SelectSeq(ops, LAMBDA o : o[1] = name)
  IN  [i \in 1..Len(mine) |-> mine[i][2]]

Count(seq, x) == Cardinality({i \in 1..Len(seq) : seq[i] = x})

OpRank(op) ==
  CASE op = "clear" -> 0 [] op = "push" -> 1 [] op = "upload" -> 2 [] op = "flush" -> 3

\* the operations are in the order clear, push, upload, flush
InFrameOrder(seq) == \A i, j \in 1..Len(seq) : i < j => OpRank(seq[i]) <= OpRank(seq[j])

Cleared(b, b2) ==
  /\ b2.vertices = <<>>
  /\ b2.indices = <<>>
  /\ b2.has_data = FALSE
  /\ b2.vbo = b.vbo
  /\ b2.ibo = b.ibo

\* C13: clear() empties the CPU vertex and index lists and sets has_data to
\* false, and leaves the GPU vertex buffer and index buffer of the batch as
\* they were: the same buffer objects, capacities and contents.
C13_ClearKeepsGpuBuffers ==
  [][/\ last'.op \in {"quad_clear", "begin_frame"} => Cleared(quad_renderer, quad_renderer')
     /\ last'.op \in {"font_clear", "begin_frame"} => Cleared(font_renderer, font_renderer')]_vars

C13_Witness ==
  /\ last.op = "font_clear"
  /\ font_renderer.vertices = <<>>
  /\ ~font_renderer.has_data
  /\ font_renderer.vbo.size = 2 * 4 * FontVertexSize
  /\ Len(font_renderer.vbo.data) = 8
  /\ Len(font_renderer.ibo.data) = 12

\* C14: the camera's viewport size, the Renderer's size and the size the
\* surface was last configured with are equal, view_proj is the projection
\* built from that size, the uniform buffer holds that view_proj, and the
\* uniform buffer is the one the camera was created with.
C14_SizesAgree ==
  /\ camera.size = size
  /\ <<surface.width, surface.height>> = size
  /\ camera.view_proj = build_proj(size)
  /\ camera.uniform_buffer.data = MatrixFloats(camera.view_proj)
  /\ camera.uniform_buffer.id = Camera_new_from_size(DefaultSize).uniform_buffer.id
  /\ camera.uniform_buffer.size = 16 * F32Size

\* the matrix the vertex shader reads from the uniform buffer
UniformMatrix(buf) == [c \in 1..4 |-> SubSeq(buf.data, 4 * c - 3, 4 * c)]

\* the clip-space position of a vertex under the camera's uniform
ClipPosition(v) ==
  Matrix4_mul_vector(UniformMatrix(camera.uniform_buffer),
                     << <<v.pos[1], 1>>, <<v.pos[2], 1>>, <<v.pos[3], 1>>, <<1, 1>> >>)

\* C15: after a resize to (W, H) with W, H > 0 the projection maps the
\* corners of the quad pushed at (0, 0) with size (W, H) to the corners of
\* clip space: (0, 0) to (-1, +1), (W, 0) to (+1, +1), (W, H) to (+1, -1),
\* (0, H) to (-1, -1), each with a depth in [0, 1] and w = 1.
C15_ViewportQuadCoversClipSpace ==
  last.op = "Resized" /\ last.arg[1] > 0 /\ last.arg[2] > 0 /\ size = last.arg =>
    LET quad == QuadVertices(0, 0, last.arg[1], last.arg[2], Green)
        clip == [i \in 1..4 |-> ClipPosition(quad[i])]
        xy == [i \in 1..4 |-> <<clip[i][1], clip[i][2]>>]
    IN  /\ xy = << << <<-1, 1>>, <<1, 1>> >>, << <<1, 1>>, <<1, 1>> >>,
                   << <<1, 1>>, <<-1, 1>> >>, << <<-1, 1>>, <<-1, 1>> >> >>
        /\ \A i \in 1..4 :
             /\ clip[i][3][2] > 0
             /\ 0 <= clip[i][3][1]
             /\ clip[i][3][1] <= clip[i][3][2]
             /\ clip[i][4] = <<1, 1>>

C15_Witness ==
  /\ last.op = "Resized"
  /\ last.arg = <<1, 4>>
  /\ last.result = "unit"
  /\ size = <<1, 4>>
  /\ camera.size = <<1, 4>>
  /\ ClipPosition(QuadVertices(0, 0, 1, 4, Green)[3])[1] = <<1, 1>>
  /\ ClipPosition(QuadVertices(0, 0, 1, 4, Green)[3])[2] = <<-1, 1>>

\* the atlas create_monospace_atlas has just returned
Built == last.op = "create_monospace_atlas" /\ aborted = "none"

\* fractions compared by cross-multiplication (denominators are positive)
FracLess(p, q) == p[1] * q[2] < q[1] * p[2]

FracLeq(p, q) == p[1] * q[2] <= q[1] * p[2]

\* C16: in the atlas built by create_monospace_atlas the UV rectangles of
\* any two distinct characters have disjoint interiors, every rectangle
\* satisfies 0 <= u0 < u1 <= 1 and 0 <= v0 < v1 <= 1, and every rectangle
\* spans cell_size pixels of the atlas each way.
C16_UvRectanglesDisjoint ==
  Built =>
    LET a == last.result
        gm == a.glyph_map
    IN  /\ \A c \in DOMAIN gm, d \in DOMAIN gm :
             c < d => \/ FracLeq(gm[c][3], gm[d][1])
                      \/ FracLeq(gm[d][3], gm[c][1])
                      \/ FracLeq(gm[c][4], gm[d][2])
                      \/ FracLeq(gm[d][4], gm[c][2])
        /\ \A c \in DOMAIN gm :
             /\ gm[c][1][2] > 0 /\ gm[c][2][2] > 0 /\ gm[c][3][2] > 0 /\ gm[c][4][2] > 0
             /\ FracLeq(<<0, 1>>, gm[c][1])
             /\ FracLess(gm[c][1], gm[c][3])
             /\ FracLeq(gm[c][3], <<1, 1>>)
             /\ FracLeq(<<0, 1>>, gm[c][2])
             /\ FracLess(gm[c][2], gm[c][4])
             /\ FracLeq(gm[c][4], <<1, 1>>)
             /\ (gm[c][3][1] * gm[c][1][2] - gm[c][1][1] * gm[c][3][2]) * a.width
                  = a.cell_size[1] * gm[c][1][2] * gm[c][3][2]
             /\ (gm[c][4][1] * gm[c][2][2] - gm[c][2][1] * gm[c][4][2]) * a.height
                  = a.cell_size[2] * gm[c][2][2] * gm[c][4][2]

C16_Witness ==
  /\ Built
  /\ font.missing = {}
  /\ font.cell_w = 2
  /\ font.cell_h = 1
  /\ Cardinality(DOMAIN last.result.glyph_map) = 95
  /\ last.result.glyph_map[32][1] = <<0, 32>>
  /\ last.result.glyph_map[48][1] = <<0, 32>>
  /\ last.result.glyph_map[48][2] = <<1, 6>>

\* C20: the character with code 0x20 + i occupies the cell at pixel origin
\* ((i mod 16) * cellW, (i div 16) * cellH) of a 16-column, 6-row grid, its
\* UV rectangle is (x / atlasW, y / atlasH, (x + cellW) / atlasW,
\* (y + cellH) / atlasH), and the atlas is 16 * cellW by 6 * cellH pixels.
C20_GridLayout ==
  Built =>
    LET a == last.result
        cellW == font.cell_w
        cellH == font.cell_h
    IN  /\ a.width = 16 * cellW
        /\ a.height = 6 * cellH
        /\ a.cell_size = <<cellW, cellH>>
        /\ \A c \in DOMAIN a.glyph_map :
             LET i == c - 32
                 x == (i % 16) * cellW
                 y == (i \div 16) * cellH
             IN  /\ i \in 0..94
                 /\ a.glyph_map[c] = << <<x, a.width>>, <<y, a.height>>,
                                        <<x + cellW, a.width>>, <<y + cellH, a.height>> >>

C20_Witness ==
  /\ Built
  /\ font.missing = {32, 65}
  /\ font.cell_w = 2
  /\ font.cell_h = 3
  /\ last.result.width = 32
  /\ last.result.height = 18
  /\ last.result.glyph_map[126] = << <<28, 32>>, <<15, 18>>, <<30, 32>>, <<18, 18>> >>

\* the batch of that name
BatchOf(name) == IF name = "quad" THEN quad_renderer ELSE font_renderer

\* C17: every draw issued by flush reads the batch's own GPU buffers, whose
\* first vertices.len() vertices and first indices.len() indices are the
\* batch's current CPU lists, also when no end_frame uploaded them (the
\* other batch being empty): flush uploads before it draws.
C17_DrawReadsCurrentLists ==
  last.op = "render" =>
    \A name \in {"quad", "font"} :
      CommandsOf("draw_indexed", name) # {} =>
        /\ HoldsCpuLists(BatchOf(name))
        /\ \A k \in CommandsOf("set_vertex_buffer", name) :
             pass[k].buffer = BatchOf(name).vbo.id
        /\ \A k \in CommandsOf("set_index_buffer", name) :
             pass[k].buffer = BatchOf(name).ibo.id

\* a render that drew the quad batch while the glyph batch was empty and had
\* never been uploaded: no end_frame got past its emptiness tests
C17_Witness ==
  /\ last.op = "render"
  /\ CommandsOf("draw_indexed", "quad") # {}
  /\ Len(quad_renderer.vertices) = 8
  /\ HoldsCpuLists(quad_renderer)
  /\ empty(font_renderer)
  /\ font_renderer.vbo.id = 0

\* C18: at every draw, each of the indices the draw reads (the first count
\* of the index buffer) is strictly less than the batch's current
\* vertices.len(): no vertex left over from a larger frame is referenced.
C18_DrawReadsNoStaleVertex ==
  last.op = "render" =>
    \A name \in {"quad", "font"} :
      \A k \in CommandsOf("draw_indexed", name) :
        /\ pass[k].count <= Len(BatchOf(name).ibo.data)
        /\ \A j \in 1..pass[k].count :
             BatchOf(name).ibo.data[j] < Len(BatchOf(name).vertices)

\* a draw from buffers that hold the tail of a larger frame, whose last
\* index points past the current vertices
C18_Witness ==
  /\ last.op = "render"
  /\ CommandsOf("draw_indexed", "quad") # {}
  /\ Len(quad_renderer.indices) = 6
  /\ Len(quad_renderer.ibo.data) = 12
  /\ quad_renderer.ibo.data[12] = 7
  /\ Len(quad_renderer.vbo.data) = 8

\* C19: a glyph push(x,y,color,c) for a character c of the atlas appends the
\* 4 vertices (x,y),(x+cw,y),(x+cw,y+ch),(x,y+ch), (cw,ch) the atlas
\* cell_size, with texture coordinates (u0,v0),(u1,v0),(u1,v1),(u0,v1) from
\* glyph_map[c], and the 6 indices n,n+1,n+2,n,n+2,n+3, n the vertex count
\* before the push.
C19_GlyphPushAppends ==
  [][ (last'.op = "font_push" /\ last'.arg[4] \in DOMAIN font_atlas.glyph_map) =>
        LET n == Len(font_renderer.vertices)
            x == last'.arg[1]
            y == last'.arg[2]
            color == last'.arg[3]
            uv == font_atlas.glyph_map[last'.arg[4]]
            cw == font_atlas.cell_size[1]
            ch == font_atlas.cell_size[2]
        IN  /\ font_renderer'.vertices =
                 font_renderer.vertices
                   \o << [pos |-> <<x, y, 0>>, texture_coords |-> <<uv[1], uv[2]>>,
                          color |-> color],
                         [pos |-> <<x + cw, y, 0>>, texture_coords |-> <<uv[3], uv[2]>>,
                          color |-> color],
                         [pos |-> <<x + cw, y + ch, 0>>, texture_coords |-> <<uv[3], uv[4]>>,
                          color |-> color],
                         [pos |-> <<x, y + ch, 0>>, texture_coords |-> <<uv[1], uv[4]>>,
                          color |-> color] >>
            /\ font_renderer'.indices =
                 font_renderer.indices \o <<n, n + 1, n + 2, n, n + 2, n + 3>>
    ]_vars

\* C21: the domain of glyph_map is exactly the set of characters of
\* 0x20..0x7E the font has an outline for: a character without an outline
\* has no entry, one with an outline has an entry, and no character outside
\* 0x20..0x7E has an entry, outlined or not.
C21_GlyphMapDomain ==
  Built =>
    LET gm == last.result.glyph_map
    IN  /\ \A c \in 32..126 : c \in DOMAIN gm <=> c \notin font.missing
        /\ \A c \in DOMAIN gm : c >= 32 /\ c <= 126
        /\ DOMAIN gm \cap font.extra = {}

C21_Witness ==
  /\ Built
  /\ font.missing = {32, 65}
  /\ font.extra = {31, 127, 161}
  /\ 32 \notin DOMAIN last.result.glyph_map
  /\ 65 \notin DOMAIN last.result.glyph_map
  /\ 66 \in DOMAIN last.result.glyph_map
  /\ Cardinality(DOMAIN last.result.glyph_map) = 93

\* C22: in the application every push on a batch is preceded in its frame by
\* begin_frame's clear, and no push on a batch comes after an upload of that
\* batch without a clear in between.  (Every handler run starts its own list
\* of operations, so the operations before a push are those of its frame.)
C22_PushOnlyAfterClear ==
  \A name \in {"quad", "font"} :
    LET seq == OpsOf(name)
    IN  \A i \in 1..Len(seq) :
          seq[i] = "push" =>
            \E j \in 1..(i - 1) :
              /\ seq[j] = "clear"
              /\ \A k \in (j + 1)..(i - 1) : seq[k] # "upload"

\* a frame built for an event right after the frame of another such event,
\* which was uploaded
C22_Witness ==
  /\ last.op = "Other"
  /\ last.repeated
  /\ quad_renderer.vbo.id = 1
  /\ font_renderer.vbo.id = 1
  /\ OpsOf("quad") = <<"clear", "push", "upload">>
  /\ OpsOf("font") = <<"clear", "push", "upload">>

\* C23: in every reachable state of a batch has_data is true if and only if
\* vertices is non-empty (has_data = ~empty()).
C23_HasDataIffNonEmpty ==
  /\ quad_renderer.has_data <=> ~empty(quad_renderer)
  /\ font_renderer.has_data <=> ~empty(font_renderer)

\* C24: a glyph push that fails because the character has no entry in the
\* atlas leaves the glyph batch as it was: vertices, indices and has_data.
C24_FailedPushLeavesBatch ==
  [][ (last'.op = "font_push" /\ last'.arg[4] \notin DOMAIN font_atlas.glyph_map) =>
        /\ font_renderer'.vertices = font_renderer.vertices
        /\ font_renderer'.indices = font_renderer.indices
        /\ font_renderer'.has_data = font_renderer.has_data
    ]_vars

\* the lists of batch b hold whole quads: four vertices and six indices each
WholeQuads(b) ==
  /\ Len(b.vertices) % 4 = 0
  /\ Len(b.indices) = 6 * (Len(b.vertices) \div 4)

\* batch b2 holds the lists of b and one quad more
OneQuadMore(b, b2) ==
  /\ Len(b2.vertices) = Len(b.vertices) + 4
  /\ Len(b2.indices) = Len(b.indices) + 6

SameLists(b, b2) == b2.vertices = b.vertices /\ b2.indices = b.indices

\* C25: in every reachable state of a batch vertices.len() is a multiple of
\* 4 and indices.len() is 6 * (vertices.len() / 4); each successful push adds
\* exactly 4 vertices and 6 indices, upload and flush leave the lists as they
\* are, and clear empties both.
C25_WholeQuads ==
  [][ /\ WholeQuads(quad_renderer) /\ WholeQuads(font_renderer)
      /\ WholeQuads(quad_renderer') /\ WholeQuads(font_renderer')
      /\ last'.op = "quad_push" => OneQuadMore(quad_renderer, quad_renderer')
      /\ last'.op = "font_push" /\ last'.result = "unit" =>
           OneQuadMore(font_renderer, font_renderer')
      /\ last'.op \in {"quad_upload", "font_upload", "end_frame", "render"} =>
           SameLists(quad_renderer, quad_renderer') /\ SameLists(font_renderer, font_renderer')
    ]_vars

C25_Witness ==
  /\ last.op = "font_push"
  /\ last.result = "unit"
  /\ last.repeated
  /\ Len(font_renderer.vertices) = 12
  /\ Len(font_renderer.indices) = 18
  /\ font_renderer.vbo.size > 0

\* the four buffers of the two batches
BatchBuffers ==
  {quad_renderer.vbo, quad_renderer.ibo, font_renderer.vbo, font_renderer.ibo}

\* C26: a write_buffer only ever targets a buffer created with COPY_DST, so
\* none is rejected for its usage: a buffer without COPY_DST is one of the
\* initial buffers, of capacity 0, and an upload of a non-empty batch leaves
\* the batch with buffers created with COPY_DST (its first upload replaces
\* the initial ones).
C26_WritesTargetCopyDst ==
  /\ aborted # "write_buffer_usage"
  /\ \A buf \in BatchBuffers : ~buf.copy_dst => buf.id = 0 /\ buf.size = 0
  /\ last.op = "quad_upload" /\ last.result = "unit" /\ ~empty(quad_renderer) =>
       quad_renderer.vbo.copy_dst /\ quad_renderer.ibo.copy_dst
  /\ last.op = "font_upload" /\ last.result = "unit" /\ ~empty(font_renderer) =>
       font_renderer.vbo.copy_dst /\ font_renderer.ibo.copy_dst

\* a second upload in a row has written in place into the buffers the first
\* one created, while the glyph batch still has its initial buffers
C26_Witness ==
  /\ last.op = "quad_upload"
  /\ last.repeated
  /\ ~empty(quad_renderer)
  /\ quad_renderer.vbo.id = 1
  /\ quad_renderer.vbo.copy_dst
  /\ quad_renderer.ibo.id = 1
  /\ font_renderer.vbo = InitialBuffer
  /\ ~font_renderer.vbo.copy_dst

\* the handler just run was that of a RedrawRequested event and called render()
Rendered == last.op = "RedrawRequested" /\ pass # <<>>

\* C27: every handled RedrawRequested event calls render() and then requests
\* another redraw, the first redraw is requested when the application
\* starts, and a CloseRequested event leads to event-loop exit without a
\* render; so, requested redraws being eventually delivered, render()
\* happens again and again until a CloseRequested event arrives.
C27_RedrawLoop ==
  /\ [](last.op = "new" => app.redraw_requested)
  /\ [](last.op = "RedrawRequested" /\ last.result = "unit" =>
          Rendered /\ app.redraw_requested)
  /\ [](last.op = "CloseRequested" /\ last.result = "unit" =>
          app.exiting /\ pass = <<>>)
  /\ ([]<>Rendered) \/ <>(last.op = "CloseRequested")

\* C28: the standalone batch modules and the inline definitions of main.rs
\* are equivalent: whatever batch a sequence of push, clear, upload and flush
\* has led to, upload and flush of quad/renderer.rs and of main.rs's
\* QuadRenderer, and of font/renderer.rs and of main.rs's FontRenderer, lead
\* to the same CPU lists, has_data, buffers (replaced or written in place,
\* with the same capacities) and outcome (push, clear and empty are the same
\* text in both).
C28_ModulesEquivalent ==
  aborted = "none" =>
    /\ Standalone_QuadRenderer_upload_data(quad_renderer)
         = QuadRenderer_upload_data(quad_renderer)
    /\ Standalone_QuadRenderer_flush(quad_renderer)
         = QuadRenderer_flush(quad_renderer)
    /\ Standalone_FontRenderer_upload_data(font_renderer)
         = FontRenderer_upload_data(font_renderer)
    /\ Standalone_FontRenderer_flush(font_renderer)
         = FontRenderer_flush(font_renderer)

\* the byte lengths of bytemuck::cast_slice(&vertices) and
\* bytemuck::cast_slice(&indices), which upload_data hands to
\* create_buffer_init or write_buffer
VertexBytes(b, vertex_size) == Len(b.vertices) * vertex_size
IndexBytes(b) == Len(b.indices) * IndexSize

\* the bytes a batch's upload writes or initialises a buffer with, and the
\* sizes of the buffers uploads have made, respect the copy alignment
AlignedUploads(b, vertex_size) ==
  /\ VertexBytes(b, vertex_size) % 4 = 0
  /\ IndexBytes(b) % 4 = 0
  /\ IndexBytes(b) = 12 * (Len(b.vertices) \div 4)
  /\ b.vbo.size = Len(b.vbo.data) * vertex_size
  /\ b.vbo.size % 4 = 0
  /\ b.ibo.size = Len(b.ibo.data) * IndexSize
  /\ b.ibo.size % 12 = 0

\* C29: the byte length of every buffer write or buffer initialisation that
\* upload performs is a multiple of 4: the vertex data are 24 bytes (quads)
\* or 32 bytes (glyphs) per vertex and the index data 12 bytes per pushed
\* quad, however many pushes there were.
C29_UploadSizesAligned ==
  /\ AlignedUploads(quad_renderer, VertexSize)
  /\ AlignedUploads(font_renderer, FontVertexSize)

\* both batches uploaded, the glyph batch a second time (written in place)
C29_Witness ==
  /\ last.op = "font_upload"
  /\ last.result = "unit"
  /\ last.repeated
  /\ font_renderer.vbo.size = 8 * FontVertexSize
  /\ font_renderer.ibo.size = 24
  /\ quad_renderer.vbo.size = 4 * VertexSize
  /\ quad_renderer.ibo.size = 12

====
